---- MODULE Spec2Model ----
(***************************************************************************)
(* A model of normalize-daz.py: the archive extractor, the recursive       *)
(* unpacker, the content-root locator, the selective copier and the        *)
(* per-archive orchestration driven by main.                               *)
(*                                                                         *)
(* A directory tree is a function from relative paths (sequences of entry  *)
(* names, <<>> being the directory the tree hangs from) to entries.  An    *)
(* entry is a record: kind ("dir" or "file"), fmt (the encoding of a       *)
(* file's bytes: "zip", "rar", "7z" or "data"), id (what tells one plain   *)
(* file's bytes from another's) and tree (what an archive's bytes hold).   *)
(***************************************************************************)
EXTENDS Integers, Sequences, FiniteSets, TLC

VARIABLES
    pc,        \* where the modelled run stands
    order,     \* the order in which the file system lists names
    tree,      \* the scratch tree (the source root, for the copier)
    start,     \* the scratch tree the unpacker was given
    passes,    \* the unpacker's iteration counter
    located,   \* what find_daz_root returned
    out,       \* the output directory
    flags,     \* include_promos, keep_temp, merge_into_content
    input,     \* the input directory
    archives,  \* main's list of archives
    idx,       \* the place of main's loop in that list
    run,       \* how many times the program was started
    firstOut,  \* the output directory as the first run left it
    scratch,   \* the scratch directories: those made, those still there
    call       \* the last call of process_archive (or of copy_daz_root)

vars == <<pc, order, tree, start, passes, located, out, flags, input,
          archives, idx, run, firstOut, scratch, call>>

unpackVars == <<start, passes>>
mainVars == <<input, archives, idx, run, firstOut, scratch>>

(***************************************************************************)
(* Bounds of the model.                                                    *)
(***************************************************************************)
\* Deepest chain of archives inside archives in a starting scratch tree.
MaxNest == 3
\* Longest path of a tree handed to the locator.
MaxDepth == 4
\* Passes of the unpacker's while loop the model follows.
MaxPasses == 5
\* Most archive files in the input directory.
MaxBatch == 2
\* Times the program is started on the same input.
MaxRuns == 2

(***************************************************************************)
(* Configuration (lines 13-15).                                            *)
(***************************************************************************)
DAZ_FOLDERS == {"data", "People", "Props", "Runtime", "Environments", "Scenes"}
PROMO_EXTS == {".jpg", ".jpeg", ".png", ".gif", ".pdf", ".txt", ".doc", ".docx", ".rtf"}
ARCHIVE_EXTS == {".zip", ".rar", ".7z"}

(***************************************************************************)
(* Names.  pathlib's suffix and stem, and str.lower, on the names the      *)
(* model uses: <<name, stem, suffix>> for every name that has a suffix,    *)
(* and <<string, lowercased>> for every string that has a capital.         *)
(***************************************************************************)
NameParts ==
    { <<"pack.zip", "pack", ".zip">>, <<"Pack.ZIP", "Pack", ".ZIP">>,
      <<"pack.7z", "pack", ".7z">>, <<"broken.zip", "broken", ".zip">>,
      <<"extra.rar", "extra", ".rar">>, <<"tex.zip", "tex", ".zip">>,
      <<"a.png", "a", ".png">>, <<"promo.jpg", "promo", ".jpg">>,
      <<"fig.duf", "fig", ".duf">>, <<"notes.txt", "notes", ".txt">>,
      <<"readme.txt", "readme", ".txt">>, <<"thumb.png", "thumb", ".png">>,
      <<"docs.txt", "docs", ".txt">>, <<"m.duf", "m", ".duf">>,
      <<"promo.JPG", "promo", ".JPG">>, <<"scene.duf", "scene", ".duf">>,
      <<"old.duf", "old", ".duf">>, <<"packA.zip", "packA", ".zip">>,
      <<"packA.rar", "packA", ".rar">>, <<"noroot.7z", "noroot", ".7z">>,
      <<"nested.zip", "nested", ".zip">>, <<"stuck.zip", "stuck", ".zip">>,
      <<"two.7z", "two", ".7z">>, <<"tex.png", "tex", ".png">>,
      <<"old.zip", "old", ".zip">> }

LowerPairs ==
    { <<"Pack.ZIP", "pack.zip">>, <<".ZIP", ".zip">>, <<"People", "people">>,
      <<"Props", "props">>, <<"Runtime", "runtime">>,
      <<"Environments", "environments">>, <<"Scenes", "scenes">>,
      <<"RUNTIME", "runtime">>,
      <<"promo.JPG", "promo.jpg">>, <<".JPG", ".jpg">>,
      <<"ReadMe", "readme">>, <<"packA.zip", "packa.zip">>,
      <<"packA.rar", "packa.rar">>, <<"Content", "content">> }

Suffix(n) ==
    IF \E t \in NameParts : t[1] = n
    THEN (CHOOSE t \in NameParts : t[1] = n)[3]
    ELSE ""

Stem(n) ==
    IF \E t \in NameParts : t[1] = n
    THEN (CHOOSE t \in NameParts : t[1] = n)[2]
    ELSE n

Lower(s) ==
    IF \E t \in LowerPairs : t[1] = s
    THEN (CHOOSE t \in LowerPairs : t[1] = s)[2]
    ELSE s

(***************************************************************************)
(* With(v, F) is F(v) with v worked out once.                              *)
(***************************************************************************)
With(v, F(_)) == CHOOSE y \in {F(x) : x \in {v}} : TRUE

(***************************************************************************)
(* Paths and trees.                                                        *)
(***************************************************************************)
Parent(p) == SubSeq(p, 1, Len(p) - 1)

Name(p) == p[Len(p)]

IsPrefix(d, p) == Len(d) <= Len(p) /\ SubSeq(p, 1, Len(d)) = d

Dir == [kind |-> "dir", fmt |-> "", id |-> "", tree |-> <<>>]

File(i) == [kind |-> "file", fmt |-> "data", id |-> i, tree |-> <<>>]

Arch(f, t) == [kind |-> "file", fmt |-> f, id |-> "", tree |-> t]

Missing == [kind |-> "missing", fmt |-> "", id |-> "", tree |-> <<>>]

Lookup(t, p) == IF p \in DOMAIN t THEN t[p] ELSE Missing

\* p.is_dir(): the directory the tree hangs from, or a directory entry.
is_dir(t, p) == p = <<>> \/ Lookup(t, p).kind = "dir"

\* The tree t placed under directory d.
Shift(t, d) ==
    [q \in {d \o r : r \in DOMAIN t} |-> t[SubSeq(q, Len(d) + 1, Len(q))]]

\* What lies under directory d of t, relative to d.
Subtree(t, d) ==
    [r \in {SubSeq(q, Len(d) + 1, Len(q)) :
              q \in {x \in DOMAIN t : IsPrefix(d, x) /\ Len(x) > Len(d)}}
       |-> t[d \o r]]

Remove(t, S) == [q \in DOMAIN t \ S |-> t[q]]

\* Path.iterdir(): the entries of directory d, in the order the file
\* system lists them (ord ranks the names).
iterdir(t, d, ord) ==
    LET names == SelectSeq(ord, LAMBDA n : Append(d, n) \in DOMAIN t)
    IN  [i \in 1..Len(names) |-> Append(d, names[i])]

RECURSIVE Flatten(_)
Flatten(ss) == IF ss = <<>> THEN <<>> ELSE Head(ss) \o Flatten(Tail(ss))

\* Path.rglob("*"): the entries of d, then the walk of each subdirectory
\* of d in turn.
RECURSIVE rglob(_, _, _)
rglob(t, d, ord) ==
    LET kids == iterdir(t, d, ord)
    IN  kids \o Flatten([i \in 1..Len(kids) |->
                           IF t[kids[i]].kind = "dir"
                           THEN rglob(t, kids[i], ord)
                           ELSE <<>>])

(***************************************************************************)
(* Archive extraction (lines 20-37).  The decoder is chosen by the         *)
(* lowercased suffix of the archive's name; it fails, and the failure is   *)
(* caught, when the path is missing, is a directory, or holds bytes of     *)
(* another encoding.  extractall writes every member under dest, over      *)
(* what is there.                                                          *)
(***************************************************************************)
Decoder(ext) ==
    CASE ext = ".zip" -> "zip"
      [] ext = ".rar" -> "rar"
      [] ext = ".7z" -> "7z"
      [] OTHER -> "unsupported"

extract_archive(name, entry, t, dest) ==
    LET ext == Lower(Suffix(name))
    IN  IF Decoder(ext) = "unsupported" THEN t
        ELSE IF entry.kind # "file" \/ entry.fmt # Decoder(ext) THEN t
        ELSE Shift(entry.tree, dest) @@ t

\* Path.unlink(missing_ok=True): a missing path is let pass, a directory
\* raises (the caller catches it) and stays.
unlink(t, p) ==
    IF Lookup(t, p).kind = "file" THEN Remove(t, {p}) ELSE t

(***************************************************************************)
(* The recursive unpacker (lines 39-61).                                   *)
(***************************************************************************)
\* The suffix compared as written, not lowercased.
IsArchivePathCaseSensitive(p) == Suffix(Name(p)) \in ARCHIVE_EXTS

IsArchivePath(p) == Lower(Suffix(Name(p))) \in ARCHIVE_EXTS

\* Line 46.
ScanArchives(t, root, ord) == SelectSeq(rglob(t, root, ord), IsArchivePath)

\* Lines 52-59: each archive found is extracted into its parent and unlinked.
RECURSIVE ExtractEach(_, _, _)
ExtractEach(t, found, i) ==
    IF i > Len(found) THEN t
    ELSE LET a == found[i]
         IN  With(extract_archive(Name(a), Lookup(t, a), t, Parent(a)),
                  LAMBDA x : With(unlink(x, a),
                                  LAMBDA u : ExtractEach(u, found, i + 1)))

\* One pass of the while loop.
UnpackPass(t, root, ord) == ExtractEach(t, ScanArchives(t, root, ord), 1)

(***************************************************************************)
(* The content-root locator (lines 66-88).                                 *)
(***************************************************************************)
NotFound == [found |-> FALSE, path |-> <<>>]

\* Lines 75 and 83: the lowercased names of d's immediate subdirectories.
SubdirNames(t, d, ord) ==
    LET kids == iterdir(t, d, ord)
    IN  {Lower(Name(kids[i])) : i \in {j \in 1..Len(kids) : is_dir(t, kids[j])}}

\* Lines 76 and 84.
HasDazFolder(t, d, ord) ==
    {Lower(f) : f \in DAZ_FOLDERS} \cap SubdirNames(t, d, ord) # {}

\* The walk alone, without the look at the root itself.
find_daz_root_walk_only(t, root, ord) ==
    LET hits == SelectSeq(rglob(t, root, ord),
                          LAMBDA p : is_dir(t, p) /\ HasDazFolder(t, p, ord))
    IN  IF hits = <<>> THEN NotFound ELSE [found |-> TRUE, path |-> Head(hits)]

find_daz_root(t, root, ord) ==
    IF HasDazFolder(t, root, ord) THEN [found |-> TRUE, path |-> root]
    ELSE LET hits == SelectSeq(rglob(t, root, ord),
                               LAMBDA p : is_dir(t, p) /\ HasDazFolder(t, p, ord))
         IN  IF hits = <<>> THEN NotFound
             ELSE [found |-> TRUE, path |-> Head(hits)]

(***************************************************************************)
(* The selective copier (lines 95-104) and the shutil calls it makes.      *)
(* Each yields the destination tree and whether the call raised.           *)
(***************************************************************************)
\* shutil.copy2 writing in append mode: an existing file keeps its bytes
\* and gets the new ones after them.
copy2_append(src, sp, o, dp) ==
    LET target == IF Lookup(o, dp).kind = "dir" THEN Append(dp, Name(sp)) ELSE dp
        old == Lookup(o, target)
    IN  IF old.kind = "dir" THEN [tree |-> o, raised |-> TRUE]
        ELSE [tree |-> (target :> [src[sp] EXCEPT !.id = old.id \o @]) @@ o,
              raised |-> FALSE]

\* shutil.copy2(item, dest), line 104: a destination that is a directory
\* takes the file under the file's own name; the file is written over
\* what is there, and writing over a directory raises.
copy2(src, sp, o, dp) ==
    LET target == IF Lookup(o, dp).kind = "dir" THEN Append(dp, Name(sp)) ELSE dp
    IN  IF Lookup(o, target).kind = "dir" THEN [tree |-> o, raised |-> TRUE]
        ELSE [tree |-> (target :> src[sp]) @@ o, raised |-> FALSE]

\* shutil.copytree(item, dest, dirs_exist_ok=True), line 102: the
\* destination directory is made (a file in its place raises); every
\* entry is copied, the errors of the entries are collected and raised
\* at the end.
RECURSIVE copytree(_, _, _, _, _)
RECURSIVE CopyEntries(_, _, _, _, _, _)
CopyEntries(src, kids, i, acc, dp, ord) ==
    IF i > Len(kids) THEN acc
    ELSE LET k == kids[i]
         IN  With(IF src[k].kind = "dir"
                  THEN copytree(src, k, acc.tree, Append(dp, Name(k)), ord)
                  ELSE copy2(src, k, acc.tree, Append(dp, Name(k))),
                  LAMBDA r :
                      CopyEntries(src, kids, i + 1,
                                  [tree |-> r.tree, raised |-> acc.raised \/ r.raised],
                                  dp, ord))

copytree(src, sp, o, dp, ord) ==
    IF Lookup(o, dp).kind = "file" THEN [tree |-> o, raised |-> TRUE]
    ELSE CopyEntries(src, iterdir(src, sp, ord), 1,
                     [tree |-> (dp :> Dir) @@ o, raised |-> FALSE], dp, ord)

\* Line 98.
IsPromo(item) == Lower(Suffix(Name(item))) \in PROMO_EXTS

\* Lines 97-104, from the i-th item on; a raise ends the loop.
RECURSIVE CopyItems(_, _, _, _, _, _, _)
CopyItems(src, items, i, o, dest, include_promos, ord) ==
    IF i > Len(items) THEN [tree |-> o, raised |-> FALSE]
    ELSE LET item == items[i]
         IN  IF ~include_promos /\ IsPromo(item)
             THEN CopyItems(src, items, i + 1, o, dest, include_promos, ord)
             ELSE With(IF src[item].kind = "dir"
                       THEN copytree(src, item, o, Append(dest, Name(item)), ord)
                       ELSE copy2(src, item, o, Append(dest, Name(item))),
                       LAMBDA r :
                           IF r.raised THEN r
                           ELSE CopyItems(src, items, i + 1, r.tree, dest,
                                          include_promos, ord))

copy_daz_root(src, source_root, o, output_dir, include_promos, ord) ==
    CopyItems(src, iterdir(src, source_root, ord), 1, o, output_dir,
              include_promos, ord)

(***************************************************************************)
(* The unpacker as process_archive calls it (lines 39-61): the result of   *)
(* the passes and whether the loop ends.  A pass is a function of the      *)
(* tree, so a pass that finds archives and leaves the tree as it was is    *)
(* followed by the same pass, for ever.                                    *)
(***************************************************************************)
RECURSIVE extract_all_archives_recursively(_, _, _)
extract_all_archives_recursively(t, root, ord) ==
    IF ScanArchives(t, root, ord) = <<>> THEN [tree |-> t, returns |-> TRUE]
    ELSE With(UnpackPass(t, root, ord),
              LAMBDA t2 : IF t2 = t THEN [tree |-> t, returns |-> FALSE]
                          ELSE extract_all_archives_recursively(t2, root, ord))

(***************************************************************************)
(* process_archive (lines 109-222): three times the sequence extract,      *)
(* unpack, locate, copy.  The state a sequence works on: the output        *)
(* directory, the scratch directories still there and the number made so   *)
(* far, the roots located by the sequences before, the last scratch tree,  *)
(* and how the call stands ("go", "returned", "raised", "hung").           *)
(***************************************************************************)
\* tempfile.mkdtemp(), lines 110, 145 and 182.
NewTemp(st) == [st EXCEPT !.made = @ + 1, !.live = @ \cup {st.made + 1}]

\* The test on keep_temp the wrong way round.
cleanup_inverted(st, id, keep_temp) ==
    IF keep_temp THEN [st EXCEPT !.live = @ \ {id}] ELSE st

\* Lines 124-127, 142-143, 163-164, 179-180, 204-205 and 221-222.
cleanup(st, id, keep_temp) ==
    IF keep_temp THEN st ELSE [st EXCEPT !.live = @ \ {id}]

\* Path.mkdir(parents=True, exist_ok=True), lines 132 and 137.
mkdir(o, p) ==
    IF Lookup(o, p).kind = "file" THEN [tree |-> o, raised |-> TRUE]
    ELSE [tree |-> (p :> Dir) @@ o, raised |-> FALSE]

\* Line 136.
NormalizedName(name) == Stem(name) \o "_normalized"

\* shutil.make_archive(str(cleaned_dir), "zip", cleaned_dir), line 139.
make_archive(o, base, root_dir) ==
    (Append(Parent(base), Name(base) \o ".zip") :> Arch("zip", Subtree(o, root_dir))) @@ o

\* Lines 130-140 (and 167-177, 208-219).
Deliver(name, t, daz_root, o, fl, ord) ==
    IF fl.merge_into_content
    THEN LET content_dir == <<"Content">>
             m == mkdir(o, content_dir)
         IN  IF m.raised THEN m
             ELSE copy_daz_root(t, daz_root, m.tree, content_dir, fl.include_promos, ord)
    ELSE LET cleaned_dir == <<NormalizedName(name)>>
             m == mkdir(o, cleaned_dir)
             c == IF m.raised THEN m
                  ELSE copy_daz_root(t, daz_root, m.tree, cleaned_dir,
                                     fl.include_promos, ord)
         IN  IF c.raised THEN c
             ELSE [tree |-> make_archive(c.tree, cleaned_dir, cleaned_dir),
                   raised |-> FALSE]

\* Lines 112-114: the archive extracted into a fresh scratch directory and
\* unpacked.
Unpacked(name, entry, ord) ==
    extract_all_archives_recursively(extract_archive(name, entry, <<>>, <<>>), <<>>, ord)

\* The first root found from one of dirs, in their order.
FirstRoot(t, dirs, ord) ==
    LET hits == SelectSeq(dirs, LAMBDA d : is_dir(t, d) /\ find_daz_root(t, d, ord).found)
    IN  IF hits = <<>> THEN NotFound ELSE find_daz_root(t, Head(hits), ord)

\* Lines 151-159: the locator, then the locator from every directory.
LocateOrWalk(t, ord) ==
    IF find_daz_root(t, <<>>, ord).found THEN find_daz_root(t, <<>>, ord)
    ELSE FirstRoot(t, rglob(t, <<>>, ord), ord)

\* Lines 191-200: the locator, then the locator from every top-level folder.
LocateOrSubfolders(t, ord) ==
    IF find_daz_root(t, <<>>, ord).found THEN find_daz_root(t, <<>>, ord)
    ELSE FirstRoot(t, iterdir(t, <<>>, ord), ord)

\* What follows the unpacking in each of the three sequences: the return
\* when no root was found, else the copy and the end of the scratch.
Orchestrate(name, st, id, fl, ord, u, root) ==
    IF ~u.returns THEN [st EXCEPT !.status = "hung", !.tree = u.tree]
    ELSE IF ~root.found
    THEN [cleanup(st, id, fl.keep_temp) EXCEPT
            !.status = "returned", !.tree = u.tree, !.roots = Append(@, root)]
    ELSE With(Deliver(name, u.tree, root.path, st.out, fl, ord),
              LAMBDA d :
                  IF d.raised
                  THEN [st EXCEPT !.status = "raised", !.out = d.tree, !.tree = u.tree,
                                  !.roots = Append(@, root)]
                  ELSE [cleanup(st, id, fl.keep_temp) EXCEPT
                          !.out = d.tree, !.tree = u.tree, !.roots = Append(@, root)])

\* The output directory made before the root is looked for.
FirstSequenceMkdirFirst(name, entry, st, fl, ord) ==
    LET dir == IF fl.merge_into_content THEN <<"Content">> ELSE <<NormalizedName(name)>>
    IN  With(Unpacked(name, entry, ord),
             LAMBDA u :
                 With(find_daz_root(u.tree, <<>>, ord),
                      LAMBDA root :
                          Orchestrate(name,
                                      [NewTemp(st) EXCEPT !.out = mkdir(st.out, dir).tree],
                                      st.made + 1, fl, ord, u, root)))

\* Lines 110-143.
FirstSequence(name, entry, st, fl, ord) ==
    With(Unpacked(name, entry, ord),
         LAMBDA u :
             With(find_daz_root(u.tree, <<>>, ord),
                  LAMBDA root :
                      Orchestrate(name, NewTemp(st), st.made + 1, fl, ord, u, root)))

\* The copy of the second sequence made with the promos in.
SecondSequenceWithPromos(name, entry, st, fl, ord) ==
    With(Unpacked(name, entry, ord),
         LAMBDA u :
             With(LocateOrWalk(u.tree, ord),
                  LAMBDA root :
                      Orchestrate(name, NewTemp(st), st.made + 1, [fl EXCEPT !.include_promos = TRUE], ord, u, root)))

\* Lines 145-180.
SecondSequence(name, entry, st, fl, ord) ==
    With(Unpacked(name, entry, ord),
         LAMBDA u :
             With(LocateOrWalk(u.tree, ord),
                  LAMBDA root :
                      Orchestrate(name, NewTemp(st), st.made + 1, fl, ord, u, root)))

\* Lines 182-222.
ThirdSequence(name, entry, st, fl, ord) ==
    With(Unpacked(name, entry, ord),
         LAMBDA u :
             With(LocateOrSubfolders(u.tree, ord),
                  LAMBDA root :
                      Orchestrate(name, NewTemp(st), st.made + 1, fl, ord, u, root)))

process_archive(name, entry, st, fl, ord) ==
    With(FirstSequence(name, entry, [st EXCEPT !.status = "go", !.roots = <<>>], fl, ord),
         LAMBDA a :
             With(IF a.status = "go" THEN SecondSequence(name, entry, a, fl, ord) ELSE a,
                  LAMBDA b :
                      With(IF b.status = "go" THEN ThirdSequence(name, entry, b, fl, ord)
                           ELSE b,
                           LAMBDA c : IF c.status = "go"
                                      THEN [c EXCEPT !.status = "returned"] ELSE c)))

(***************************************************************************)
(* Listing orders: the order in which a directory's entries come is the    *)
(* file system's; the model takes one order of the names or its reverse.   *)
(***************************************************************************)
NameOrder ==
    << "a", "a.png", "b", "broken.zip", "c", "d", "data", "extra.rar",
       "fig.duf", "inner", "notes.txt", "pack.7z", "pack.zip", "Pack.ZIP",
       "People", "promo.jpg", "Props", "readme.txt", "Runtime", "RUNTIME",
       "Scenes", "tex.zip", "wrap", "x", "docs.txt", "m.duf", "old.duf",
       "promo.JPG", "scene.duf", "thumb.png", "bundle", "misc", "ReadMe",
       "tex.png", "nested.zip", "noroot.7z", "old.zip", "packA.rar",
       "packA.zip", "stuck.zip", "two.7z" >>

Reverse(s) == [i \in 1..Len(s) |-> s[Len(s) + 1 - i]]

ListingOrders == {NameOrder, Reverse(NameOrder)}

(***************************************************************************)
(* Values of the variables a specification does not use.                   *)
(***************************************************************************)
NoFlags == [include_promos |-> FALSE, keep_temp |-> FALSE, merge_into_content |-> FALSE]

NoCall ==
    [result |-> "none", name |-> "", entry |-> Missing, found |-> FALSE,
     before |-> <<>>, made |-> {}, roots |-> <<>>]

MainIdle ==
    /\ input = <<>>
    /\ archives = <<>>
    /\ idx = 0
    /\ run = 0
    /\ firstOut = <<>>
    /\ scratch = [live |-> {}, made |-> 0]

(***************************************************************************)
(* Starting scratch trees of the unpacker.                                 *)
(***************************************************************************)
Payload == (<<"People">> :> Dir) @@ (<<"People", "fig.duf">> :> File("fig"))

ArchName(k) ==
    CASE k % 3 = 1 -> "pack.zip"
      [] k % 3 = 2 -> "Pack.ZIP"
      [] OTHER -> "pack.7z"

ArchFmt(k) == Decoder(Lower(Suffix(ArchName(k))))

\* What an archive holding k further levels of archives unpacks to.
RECURSIVE NestedTree(_)
NestedTree(k) ==
    IF k = 0 THEN Payload
    ELSE (<<"inner">> :> Dir)
         @@ (<<"inner", ArchName(k)>> :> Arch(ArchFmt(k), NestedTree(k - 1)))

NestedItem(n) ==
    IF n = 0 THEN <<>>
    ELSE <<ArchName(n)>> :> Arch(ArchFmt(n), NestedTree(n - 1))

\* A rar archive under a .zip name: the zip decoder refuses it.
MisnamedItem == <<"broken.zip">> :> Arch("rar", <<"notes.txt">> :> File("notes"))

WrapItem ==
    (<<"wrap">> :> Dir)
    @@ (<<"wrap", "extra.rar">> :> Arch("rar", <<"readme.txt">> :> File("readme")))

\* A directory whose name ends like an archive's.
DirZipItem == (<<"tex.zip">> :> Dir) @@ (<<"tex.zip", "a.png">> :> File("a"))

PlainItem == <<"promo.jpg">> :> File("promo")

UnpackTrees ==
    { NestedItem(n) @@ a @@ b @@ c @@ d :
        n \in 0..MaxNest,
        a \in {<<>>, MisnamedItem}, b \in {<<>>, WrapItem},
        c \in {<<>>, DirZipItem}, d \in {<<>>, PlainItem} }

(***************************************************************************)
(* The unpacker as a state machine: one step per pass of its loop.         *)
(***************************************************************************)
InitUnpack ==
    /\ pc = "scan"
    /\ order \in ListingOrders
    /\ tree \in UnpackTrees
    /\ start = tree
    /\ passes = 0
    /\ located = NotFound
    /\ out = <<>>
    /\ flags = NoFlags
    /\ MainIdle
    /\ call = NoCall

\* Lines 46-49: the scan finds nothing and the function returns.
UnpackReturn ==
    /\ pc = "scan"
    /\ ScanArchives(tree, <<>>, order) = <<>>
    /\ pc' = "returned"
    /\ UNCHANGED <<order, tree, unpackVars, located, out, flags, mainVars, call>>

\* Lines 51-61: the scan finds archives; all are handled and the loop repeats.
UnpackLoop ==
    /\ pc = "scan"
    /\ ScanArchives(tree, <<>>, order) # <<>>
    /\ passes < MaxPasses
    /\ \E t \in {UnpackPass(tree, <<>>, order)} : tree' = t
    /\ passes' = passes + 1
    /\ UNCHANGED <<pc, order, start, located, out, flags, mainVars, call>>

NextUnpack == UnpackReturn \/ UnpackLoop

SpecUnpack == InitUnpack /\ [][NextUnpack]_vars

(***************************************************************************)
(* Trees handed to the locator: the sets of these entries in which every   *)
(* entry's parent is a directory of the set, no path longer than MaxDepth. *)
(***************************************************************************)
FindEntries ==
    { <<<<"a">>, Dir>>, <<<<"a", "data">>, File("d")>>, <<<<"a", "b">>, Dir>>,
      <<<<"a", "b", "Props">>, Dir>>, <<<<"a", "b", "x">>, Dir>>,
      <<<<"a", "b", "x", "People">>, Dir>>,
      <<<<"a", "b", "x", "People", "data">>, Dir>>,
      <<<<"c">>, Dir>>, <<<<"c", "d">>, Dir>>, <<<<"c", "d", "RUNTIME">>, Dir>>,
      <<<<"Runtime">>, Dir>> }

TreeOf(S) == [p \in {e[1] : e \in S} |-> (CHOOSE e \in S : e[1] = p)[2]]

FindTrees ==
    { TreeOf(S) :
        S \in { T \in SUBSET {e \in FindEntries : Len(e[1]) <= MaxDepth} :
                  \A e \in T : \/ Len(e[1]) = 1
                               \/ <<Parent(e[1]), Dir>> \in T } }

InitFind ==
    /\ pc = "locate"
    /\ order \in ListingOrders
    /\ tree \in FindTrees
    /\ start = tree
    /\ passes = 0
    /\ located = NotFound
    /\ out = <<>>
    /\ flags = NoFlags
    /\ MainIdle
    /\ call = NoCall

Locate ==
    /\ pc = "locate"
    /\ located' = find_daz_root(tree, <<>>, order)
    /\ pc' = "located"
    /\ UNCHANGED <<order, tree, unpackVars, out, flags, mainVars, call>>

NextFind == Locate

SpecFind == InitFind /\ [][NextFind]_vars

(***************************************************************************)
(* The copier alone: a source root and a destination, one call.            *)
(***************************************************************************)
RuntimeItem ==
    (<<"Runtime">> :> Dir) @@ (<<"Runtime", "thumb.png">> :> File("thumb"))

\* A directory whose name ends like a document's.
DocsItem == (<<"docs.txt">> :> Dir) @@ (<<"docs.txt", "m.duf">> :> File("m"))

CopySources ==
    { a @@ b @@ c @@ d @@ e :
        a \in {<<>>, RuntimeItem}, b \in {<<>>, <<"promo.JPG">> :> File("promo")},
        c \in {<<>>, <<"readme.txt">> :> File("readme")}, d \in {<<>>, DocsItem},
        e \in {<<>>, <<"scene.duf">> :> File("scene")} }

CopyDests ==
    { <<>>, <<"old.duf">> :> File("old"),
      (<<"Runtime">> :> Dir) @@ (<<"Runtime", "thumb.png">> :> File("older")) }

InitCopy ==
    /\ pc = "copy"
    /\ order \in ListingOrders
    /\ tree \in CopySources
    /\ start = <<>>
    /\ passes = 0
    /\ located = NotFound
    /\ out \in CopyDests
    /\ flags \in {[NoFlags EXCEPT !.include_promos = b] : b \in BOOLEAN}
    /\ MainIdle
    /\ call = NoCall

CopyRoot ==
    /\ pc = "copy"
    /\ \E r \in {copy_daz_root(tree, <<>>, out, <<>>, flags.include_promos, order)} :
           /\ out' = r.tree
           /\ call' = [NoCall EXCEPT !.result = IF r.raised THEN "raised" ELSE "returned",
                                     !.before = out]
    /\ pc' = "copied"
    /\ UNCHANGED <<order, tree, unpackVars, located, flags, mainVars>>

NextCopy == CopyRoot

SpecCopy == InitCopy /\ [][NextCopy]_vars

(***************************************************************************)
(* The input archives main may find, and the input directories: up to      *)
(* MaxBatch of them, with or without entries that are no archive files.    *)
(***************************************************************************)
Catalogue ==
    ("packA.zip" :> Arch("zip",
        (<<"Runtime">> :> Dir) @@ (<<"Runtime", "tex.png">> :> File("texA"))
        @@ (<<"promo.jpg">> :> File("promo")) @@ (<<"ReadMe">> :> File("readmeA"))))
    @@ ("packA.rar" :> Arch("rar",
        (<<"wrap">> :> Dir) @@ (<<"wrap", "People">> :> Dir)
        @@ (<<"wrap", "People", "fig.duf">> :> File("fig"))
        @@ (<<"wrap", "Runtime">> :> Dir)
        @@ (<<"wrap", "Runtime", "tex.png">> :> File("texB"))))
    @@ ("noroot.7z" :> Arch("7z",
        (<<"misc">> :> Dir) @@ (<<"misc", "notes.txt">> :> File("notes"))))
    @@ ("nested.zip" :> Arch("zip",
        (<<"bundle">> :> Dir)
        @@ (<<"bundle", "Pack.ZIP">> :> Arch("zip",
              (<<"data">> :> Dir) @@ (<<"data", "fig.duf">> :> File("figD"))
              @@ (<<"ReadMe">> :> Dir)
              @@ (<<"ReadMe", "notes.txt">> :> File("notesD"))))))
    @@ ("broken.zip" :> Arch("rar", <<"notes.txt">> :> File("notes")))
    @@ ("stuck.zip" :> Arch("zip", (<<"Props">> :> Dir) @@ DirZipItem))
    @@ ("two.7z" :> Arch("7z",
        (<<"a">> :> Dir) @@ (<<"a", "Scenes">> :> Dir)
        @@ (<<"a", "Scenes", "scene.duf">> :> File("scene"))
        @@ (<<"c">> :> Dir) @@ (<<"c", "data">> :> Dir)
        @@ (<<"c", "data", "m.duf">> :> File("m"))))

\* A directory named like an archive and a file that is no archive.
Clutter == (<<"old.zip">> :> Dir) @@ (<<"notes.txt">> :> File("notes"))

InputDirs ==
    { [p \in {<<n>> : n \in S} |-> Catalogue[p[1]]] @@ c :
        S \in {T \in SUBSET DOMAIN Catalogue : Cardinality(T) <= MaxBatch},
        c \in {<<>>, Clutter} }

(***************************************************************************)
(* main (lines 227-275), and the program started again on the same input.  *)
(***************************************************************************)
Init ==
    /\ pc = "start"
    /\ order \in ListingOrders
    /\ tree = <<>>
    /\ start = <<>>
    /\ passes = 0
    /\ located = NotFound
    /\ out = <<>>
    /\ flags \in [include_promos : BOOLEAN, keep_temp : BOOLEAN,
                   merge_into_content : BOOLEAN]
    /\ input \in InputDirs
    /\ archives = <<>>
    /\ idx = 0
    /\ run = 0
    /\ firstOut = <<>>
    /\ scratch = [live |-> {}, made |-> 0]
    /\ call = NoCall

\* Lines 259-264: the archive files of the input directory are listed;
\* with none, main returns.
MainStart ==
    /\ pc = "start"
    /\ LET files == SelectSeq(iterdir(input, <<>>, order),
                              LAMBDA f : input[f].kind = "file"
                                         /\ Lower(Suffix(Name(f))) \in ARCHIVE_EXTS)
       IN  /\ archives' = [i \in 1..Len(files) |-> Name(files[i])]
           /\ pc' = IF files = <<>> THEN "done" ELSE "loop"
    /\ idx' = 1
    /\ run' = run + 1
    /\ call' = NoCall
    /\ UNCHANGED <<order, tree, unpackVars, located, out, flags, input, firstOut,
                   scratch>>

\* Lines 266-275: one turn of the loop.  A raise of process_archive ends
\* main (nothing catches it); a call that never returns holds it for ever.
MainLoop ==
    /\ pc = "loop"
    /\ \E name \in {archives[idx]} :
       \E r \in {process_archive(name, input[<<name>>],
                                 [out |-> out, live |-> scratch.live,
                                  made |-> scratch.made, roots |-> <<>>,
                                  status |-> "go", tree |-> tree],
                                 flags, order)} :
           /\ out' = r.out
           /\ tree' = r.tree
           /\ scratch' = [live |-> r.live, made |-> r.made]
           /\ call' = [result |-> r.status, name |-> name, entry |-> input[<<name>>],
                       found |-> r.roots # <<>> /\ r.roots[1].found,
                       before |-> out, made |-> (scratch.made + 1)..r.made,
                       roots |-> r.roots]
           /\ pc' = CASE r.status = "raised" -> "crashed"
                      [] r.status = "hung" -> "hung"
                      [] OTHER -> IF idx = Len(archives) THEN "done" ELSE "loop"
           /\ idx' = IF r.status = "returned" THEN idx + 1 ELSE idx
    /\ UNCHANGED <<order, unpackVars, located, flags, input, archives, run, firstOut>>

\* Lines 277-278, once more: the same command on the same directories.
Restart ==
    /\ pc \in {"done", "crashed"}
    /\ run < MaxRuns
    /\ pc' = "start"
    /\ firstOut' = IF run = 1 THEN out ELSE firstOut
    /\ UNCHANGED <<order, tree, unpackVars, located, out, flags, input, archives,
                   idx, run, scratch, call>>

Next == MainStart \/ MainLoop \/ Restart

Spec == Init /\ [][Next]_vars

(***************************************************************************)
(* C1 (as amended).  When the unpacker returns, no entry under the root    *)
(* has a suffix that lowercases to .zip, .rar or .7z, and the content of   *)
(* every archive of every nesting level that its decoder could read lies   *)
(* in the directory that held the archive.                                 *)
(***************************************************************************)
C1_ArchiveName(n) == Lower(Suffix(n)) \in {".zip", ".rar", ".7z"}

C1_Readable(n, e) == e.fmt = Decoder(Lower(Suffix(n)))

\* Every entry of t, placed under dest, is in final; for an archive, its
\* content is, one level after the other (every archive with all, the
\* readable ones without).
RECURSIVE C1_Extracted(_, _, _, _)
C1_Extracted(t, dest, final, all) ==
    \A r \in DOMAIN t :
        IF t[r].kind = "file" /\ C1_ArchiveName(Name(r))
        THEN (all \/ C1_Readable(Name(r), t[r]))
             => C1_Extracted(t[r].tree, dest \o Parent(r), final, all)
        ELSE Lookup(final, dest \o r) = t[r]

C1_NoArchiveLeft == \A p \in DOMAIN tree : ~C1_ArchiveName(Name(p))

C1_UnpackedWhenReadable ==
    pc = "returned" => C1_NoArchiveLeft /\ C1_Extracted(start, <<>>, tree, FALSE)

\* C1 as stated: the content of every nesting level is extracted.
C1_UnpackedAll ==
    pc = "returned" => C1_NoArchiveLeft /\ C1_Extracted(start, <<>>, tree, TRUE)

\* Three levels of archives were flattened beside an archive left unread.
C1_Witness ==
    /\ pc = "returned"
    /\ <<"broken.zip">> \in DOMAIN start
    /\ <<"inner", "inner", "People", "fig.duf">> \in DOMAIN tree
    /\ passes >= 3

(***************************************************************************)
(* C2.  Every pass that finds archives removes every entry it found (so    *)
(* the loop ends on every finite tree), also when an extraction or a       *)
(* deletion fails.                                                         *)
(***************************************************************************)
C2_PassRemovesFound ==
    [][passes' = passes + 1 =>
         \A p \in DOMAIN tree : C1_ArchiveName(Name(p)) => p \notin DOMAIN tree']_vars

(***************************************************************************)
(* C3 (as amended).  find_daz_root returns the root itself whenever the    *)
(* root has an immediate subdirectory whose lowercased name is a content   *)
(* folder name; otherwise, when some directory under the root has one, it  *)
(* returns such a directory, none of whose ancestors has one; otherwise    *)
(* it returns none.                                                        *)
(***************************************************************************)
C3_Qualifies(d) ==
    \E p \in DOMAIN tree :
        /\ Parent(p) = d
        /\ tree[p].kind = "dir"
        /\ Lower(Name(p)) \in {"data", "people", "props", "runtime",
                                "environments", "scenes"}

C3_Qualifying ==
    {d \in {<<>>} \cup {p \in DOMAIN tree : tree[p].kind = "dir"} : C3_Qualifies(d)}

C3_FirstOnItsBranch ==
    pc = "located" =>
        /\ located.found <=> C3_Qualifying # {}
        /\ located.found => located.path \in C3_Qualifying
        /\ C3_Qualifies(<<>>) => located.path = <<>>
        /\ \A d \in C3_Qualifying :
               IsPrefix(d, located.path) => d = located.path

\* C3 as stated: no qualifying directory is shallower than the one returned.
C3_Shallowest ==
    pc = "located" =>
        /\ located.found <=> C3_Qualifying # {}
        /\ located.found => located.path \in C3_Qualifying
        /\ C3_Qualifies(<<>>) => located.path = <<>>
        /\ \A d \in C3_Qualifying : Len(d) >= Len(located.path)

\* A nested directory was returned while another branch qualifies too.
C3_Witness ==
    /\ pc = "located"
    /\ located.found
    /\ Len(located.path) >= 2
    /\ \E d \in C3_Qualifying : ~IsPrefix(located.path, d)

(***************************************************************************)
(* C4.  With include_promos false an immediate entry of the source root    *)
(* is left out of the output exactly when it is a file whose lowercased    *)
(* suffix is a promotional one; every other immediate entry is copied, a   *)
(* directory with its whole subtree; with include_promos true every        *)
(* immediate entry is copied.                                              *)
(***************************************************************************)
C4_PromoSuffix(n) ==
    Lower(Suffix(n)) \in {".jpg", ".jpeg", ".png", ".gif", ".pdf", ".txt",
                          ".doc", ".docx", ".rtf"}

C4_Copied(p) == \A q \in DOMAIN tree : IsPrefix(p, q) => Lookup(out, q) = tree[q]

C4_OnlyPromoFilesLeftOut ==
    pc = "copied" =>
        \A p \in {q \in DOMAIN tree : Len(q) = 1} :
            IF ~flags.include_promos /\ tree[p].kind = "file" /\ C4_PromoSuffix(Name(p))
            THEN p \notin DOMAIN out
            ELSE C4_Copied(p)

(***************************************************************************)
(* C5.  A call of process_archive that finds no content root leaves the    *)
(* output directory as it was, and main goes on: the loop stands at the    *)
(* next archive, or main is done with every archive of the list called.    *)
(***************************************************************************)
C5_NotFoundLeavesOutput ==
    (call.result = "returned" /\ ~call.found /\ pc \in {"loop", "done"}) =>
        /\ out = call.before
        /\ \A d \in {<<"Content">>, <<Stem(call.name) \o "_normalized">>,
                      <<Stem(call.name) \o "_normalized.zip">>} :
               d \in DOMAIN out => d \in DOMAIN call.before
        /\ idx >= 2 /\ archives[idx - 1] = call.name
        /\ IF idx <= Len(archives) THEN pc = "loop" ELSE pc = "done"

\* An archive without a root came after one that left output and before
\* another still to be processed.
C5_Witness ==
    /\ call.result = "returned" /\ ~call.found
    /\ out # <<>>
    /\ pc = "loop" /\ idx = Len(archives)

(***************************************************************************)
(* C6.  No failure of a step of process_archive aborts the batch: the      *)
(* loop of main is never left by a raise.                                  *)
(***************************************************************************)
C6_BatchNeverAborted == pc # "crashed"

(***************************************************************************)
(* C7.  In merge mode a further run on the same input leaves               *)
(* output_dir/Content exactly as the first run left it.                    *)
(***************************************************************************)
C7_MergeIdempotent ==
    (flags.merge_into_content /\ run >= 2 /\ pc \in {"done", "crashed"}) =>
        /\ Subtree(out, <<"Content">>) = Subtree(firstOut, <<"Content">>)
        /\ DOMAIN out = DOMAIN firstOut

\* The second run ended after two archives were merged, a file of the
\* later one written over the earlier one's.
C7_Witness ==
    /\ flags.merge_into_content /\ run = 2 /\ pc = "done"
    /\ archives = <<"packA.zip", "packA.rar">>
    /\ Lookup(out, <<"Content", "Runtime", "tex.png">>).id = "texB"
    /\ Lookup(out, <<"Content", "ReadMe">>).kind = "file"

(***************************************************************************)
(* C8.  In per-archive mode, after a batch, every input archive whose      *)
(* content root was found has its own <stem>_normalized directory and      *)
(* zip, no two archives share one, and the directory holds only what was   *)
(* copied from that archive's root.                                        *)
(***************************************************************************)
C8_Alone(name) ==
    process_archive(name, input[<<name>>],
                    [out |-> <<>>, live |-> {}, made |-> 0, roots |-> <<>>,
                     status |-> "go", tree |-> <<>>], flags, order)

C8_Found(name) == C8_Alone(name).roots # <<>> /\ C8_Alone(name).roots[1].found

C8_OneDirPerArchive ==
    (~flags.merge_into_content /\ run = 1 /\ pc = "done") =>
        \A i \in 1..Len(archives) :
            C8_Found(archives[i]) =>
                LET d == <<Stem(archives[i]) \o "_normalized">>
                IN  /\ Lookup(out, d).kind = "dir"
                    /\ Lookup(out, <<d[1] \o ".zip">>).kind = "file"
                    /\ \A j \in 1..Len(archives) :
                           (j # i /\ C8_Found(archives[j]))
                               => <<Stem(archives[j]) \o "_normalized">> # d
                    /\ Subtree(out, d) = Subtree(C8_Alone(archives[i]).out, d)

C10_SameAsOneSequence ==
    call.result = "returned" =>
        /\ out = FirstSequence(call.name, call.entry,
                               [out |-> call.before, live |-> {}, made |-> 0,
                                roots |-> <<>>, status |-> "go", tree |-> <<>>],
                               flags, order).out
        /\ \A i \in 1..Len(call.roots) : call.roots[i] = call.roots[1]

\* Three sequences copied a root that holds a promo file, promos left out,
\* into an output directory that held something already.
C10_Witness ==
    /\ call.result = "returned" /\ Len(call.roots) = 3
    /\ call.name = "packA.zip" /\ ~flags.include_promos
    /\ call.before # <<>> /\ out # call.before

====
